---- MODULE Spec2Model ----
(***************************************************************************)
(* State-machine model of the BYBIT signal pipeline: the orchestrator      *)
(* (main.py: main), the per-instrument Symbol Processors (process_symbol,  *)
(* fetch_and_analyze), the budget (SharedState) and the rate-limited       *)
(* dispatcher workers (ext/messaging.py).                                  *)
(*                                                                         *)
(* The program runs on one asyncio event loop: a task runs without         *)
(* interruption until it awaits something that really suspends (a network  *)
(* call, a sleep, an empty queue, a saturated semaphore).  Each action     *)
(* below is one such uninterrupted stretch of code.                        *)
(***************************************************************************)
EXTENDS Integers, Sequences, FiniteSets, TLC

(***************************************************************************)
(* Bounds of the model.  MAX_CONCURRENT_TASKS (50 in main.py:207),         *)
(* MAX_WORKERS (15, main.py:208) and MESSAGES_PER_MINUTE (20 by default,   *)
(* messaging.py:14) keep the source's names with smaller values.           *)
(***************************************************************************)
NumSymbols == 3
MAX_CONCURRENT_TASKS == 2
MAX_WORKERS == 2
MESSAGES_PER_MINUTE == 1
MaxMessageLimit == 2
MaxFetchFaults == 3
MaxSendFaults == 5
MaxTicks == 1
MaxBars == 3

(***************************************************************************)
(* Program constants.                                                      *)
(***************************************************************************)
WINDOW_SECONDS == 60
retries == 3
max_attempts == 5
initial_delay == 1
backoff_factor == 2
TickSeconds == 30

excluded_symbols == {"USDCUSDT", "FDUSDUSDT"}

SymbolNames == <<"AUSDT", "BUSDT", "CUSDT", "DUSDT", "EUSDT">>
Universe == {SymbolNames[i] : i \in 1..NumSymbols}

\* str.upper() on the symbols the listing can return
Upper(s) == IF s = "usdcusdt" THEN "USDCUSDT" ELSE s

Workers == 1..MAX_WORKERS
MainSender == 0
Senders == {MainSender} \cup Workers

NoOne == "-"

\* what a count of sends is kept for: the message of an instrument, or the
\* empty-universe notification of main.py 224
EmptyNotice == "notice"
MessageIds == Universe \cup {EmptyNotice}

Min(a, b) == IF a <= b THEN a ELSE b
Range(q) == {q[i] : i \in 1..Len(q)}

(***************************************************************************)
(* The interval table of main() and the ladder that selects the active     *)
(* intervals from the wall clock.                                          *)
(***************************************************************************)
IntervalKeys == <<"5", "15", "30", "60", "240", "720">>

Label(k) ==
    CASE k = "5" -> "5m"
      [] k = "15" -> "15m"
      [] k = "30" -> "30m"
      [] k = "60" -> "1h"
      [] k = "240" -> "4h"
      [] k = "720" -> "12h"

Keep(allowed) == SelectSeq(IntervalKeys, LAMBDA k : k \in allowed)

\* TRUE when main() returns at once ("wrong time")
WrongTime(manual, minute) == ~manual /\ minute % 5 # 0

\* ActiveIntervals without the hour test of the 4-hour interval
ActiveIntervalsHourly(manual, hour, minute) ==
    IF manual THEN IntervalKeys
    ELSE IF minute % 60 = 0 THEN
            IF hour % 12 = 0 /\ minute = 0
              THEN Keep({"5", "15", "30", "60", "240", "720", "1440"})
            ELSE Keep({"5", "15", "30", "60", "240"})
    ELSE IF minute % 30 = 0 THEN Keep({"5", "15", "30"})
    ELSE IF minute % 15 = 0 THEN Keep({"5", "15"})
    ELSE IF minute % 5 = 0 THEN Keep({"5"})
    ELSE <<>>

\* main.py 189-205: the interval ladder
ActiveIntervals(manual, hour, minute) ==
    IF manual THEN IntervalKeys
    ELSE IF minute % 60 = 0 THEN
            IF hour % 12 = 0 /\ minute = 0
              THEN Keep({"5", "15", "30", "60", "240", "720", "1440"})
            ELSE IF hour % 4 = 0 /\ minute = 0
              THEN Keep({"5", "15", "30", "60", "240"})
            ELSE Keep({"5", "15", "30", "60"})
    ELSE IF minute % 30 = 0 THEN Keep({"5", "15", "30"})
    ELSE IF minute % 15 = 0 THEN Keep({"5", "15"})
    ELSE IF minute % 5 = 0 THEN Keep({"5"})
    ELSE <<>>

(***************************************************************************)
(* Bars.  A bar is a record of the numeric fields; fmt tells how the       *)
(* exchange encoded it: "ok", "text" (a numeric field holds a string that  *)
(* float() rejects with ValueError) or "null" (a field is missing or None: *)
(* KeyError / TypeError).                                                  *)
(***************************************************************************)
Bar(o, c) == [open |-> o, high |-> IF o > c THEN o ELSE c,
              low |-> IF o > c THEN c ELSE o, close |-> c, volume |-> 1,
              fmt |-> "ok"]
BadBar(f) == [open |-> 3, high |-> 3, low |-> 3, close |-> 3, volume |-> 1,
              fmt |-> f]

\* kline lists as get_historical_kline_data returns them (oldest first, the
\* last bar being the one still open)
KlineLong == <<Bar(5, 3), Bar(3, 2), Bar(2, 4), Bar(4, 4)>>
KlineShort == <<Bar(3, 5), Bar(5, 6), Bar(6, 4), Bar(4, 4)>>
KlineFlat == <<Bar(3, 3), Bar(3, 3), Bar(3, 3), Bar(3, 3)>>
KlineOne == <<Bar(3, 3)>>
KlineText == <<Bar(5, 3), BadBar("text"), Bar(3, 2), Bar(2, 4), Bar(4, 4)>>
KlineNull == <<Bar(5, 3), Bar(3, 2), BadBar("null"), Bar(2, 4), Bar(4, 4)>>

Klines == {KlineLong, KlineShort, KlineFlat, KlineOne, KlineText, KlineNull}

RECURSIVE Movement(_)
Movement(cs) ==
    IF cs = <<>> THEN 0
    ELSE (Head(cs).close - Head(cs).open) + Movement(Tail(cs))

\* analyze_candles without the length test of helpers.py 17-19: indexing the
\* last two bars of a shorter list raises, which ends the interval
analyze_candles_unguarded(candles) ==
    IF Len(candles) < 2 THEN "abort"
    ELSE LET n == Len(candles)
             total_movement == Movement(SubSeq(candles, 1, n - 1))
             last == candles[n]
             prev == candles[n - 1]
             last_body == last.close - last.open
             prev_body == prev.close - prev.open
             bullish == /\ prev_body < 0
                        /\ last_body > 0
                        /\ last.open <= prev.close
                        /\ last.close > prev.open
             bearish == /\ prev_body > 0
                        /\ last_body < 0
                        /\ last.open >= prev.close
                        /\ last.close < prev.open
         IN  IF total_movement < 0 /\ bullish THEN "long"
             ELSE IF total_movement > 0 /\ bearish THEN "short"
             ELSE "none"

\* helpers.analyze_candles: "long", "short" or "none"
analyze_candles(candles) ==
    IF Len(candles) < 2 THEN "none"
    ELSE LET n == Len(candles)
             total_movement == Movement(SubSeq(candles, 1, n - 1))
             last == candles[n]
             prev == candles[n - 1]
             last_body == last.close - last.open
             prev_body == prev.close - prev.open
             bullish == /\ prev_body < 0
                        /\ last_body > 0
                        /\ last.open <= prev.close
                        /\ last.close > prev.open
             bearish == /\ prev_body > 0
                        /\ last_body < 0
                        /\ last.open >= prev.close
                        /\ last.close < prev.open
         IN  IF total_movement < 0 /\ bullish THEN "long"
             ELSE IF total_movement > 0 /\ bearish THEN "short"
             ELSE "none"

\* fetch_and_analyze, lines 68-104, on a non-empty kline list: the outcome
\* "long", "short", "none" or "abort" (an exception ended the interval)
Evaluate(kline) ==
    LET closed == SubSeq(kline, 1, Len(kline) - 1)
        candles == SelectSeq(closed, LAMBDA b : b.fmt # "text")
    IN  IF \E i \in 1..Len(closed) :
              /\ closed[i].fmt = "null"
              /\ \A j \in 1..(i - 1) : closed[j].fmt # "null"
          THEN "abort"
          ELSE analyze_candles(candles)


(***************************************************************************)
(* The message of one instrument: its symbol and one line per direction,   *)
(* in the order the directions were first seen (dict insertion order).     *)
(***************************************************************************)
KnownLabels == <<"5m", "15m", "1h", "4h", "12h", "1d">>

\* len(x) of an interval label
StrLen(x) == IF x \in {"5m", "1h", "4h", "1d"} THEN 2 ELSE 3

\* the sort key of line 152: the position in the known list, else len(x)
SortKey(x) ==
    IF x \in Range(KnownLabels)
      THEN (CHOOSE i \in 1..Len(KnownLabels) : KnownLabels[i] = x) - 1
      ELSE StrLen(x)

\* sorted(set(list), key=...): the set's iteration order is arbitrary and the
\* sort is stable, so labels with equal keys may come out in either order
SortedOrders(S) ==
    {q \in [1..Cardinality(S) -> S] :
        /\ \A i, j \in 1..Cardinality(S) : i # j => q[i] # q[j]
        /\ \A i, j \in 1..Cardinality(S) : i < j => SortKey(q[i]) <= SortKey(q[j])}

LineChoices(e) ==
    {[action |-> e.action, labels |-> q] : q \in SortedOrders(Range(e.list))}

\* the messages process_symbol can build from a non-empty signals dict
BuildMessages(s, sig) ==
    IF Len(sig) = 1
      THEN {[symbol |-> s, lines |-> <<l>>] : l \in LineChoices(sig[1])}
      ELSE {[symbol |-> s, lines |-> <<l1, l2>>] :
                l1 \in LineChoices(sig[1]), l2 \in LineChoices(sig[2])}

EXIT == [symbol |-> "EXIT", lines |-> <<>>]
NoMessage == [symbol |-> NoOne, lines |-> <<>>]

\* signals[trade_action].append(interval_value) on a defaultdict(list)
AppendSignal(sig, act, label) ==
    IF \E i \in 1..Len(sig) : sig[i].action = act
      THEN [i \in 1..Len(sig) |->
              IF sig[i].action = act
                THEN [sig[i] EXCEPT !.list = Append(@, label)]
                ELSE sig[i]]
      ELSE Append(sig, [action |-> act, list |-> <<label>>])

\* the two purge loops of message_worker (lines 86-87 and 94-95)
RECURSIVE Purge(_, _)
Purge(win, t) ==
    IF win # <<>> /\ t - Head(win) >= WINDOW_SECONDS
      THEN Purge(Tail(win), t)
      ELSE win

(***************************************************************************)
(* State.                                                                  *)
(***************************************************************************)
VARIABLES
    mainPc,              \* where main() is
    run,                 \* the inputs of this run: MANUAL_RUN, datetime.now(),
                         \* what the exchange lists and serves, how often the
                         \* exchange and the transport fail
    intervals,           \* the active interval keys
    symbols,             \* the instrument universe after the exclusion set
    now,                 \* time.time(), in seconds since the workers started
    pc,                  \* where each process_symbol task is
    semaphore,           \* free permits of the concurrency gate
    task,                \* the fetch_and_analyze task of each (symbol, interval)
    signals,             \* the signals dict of each process_symbol
    message,             \* the message a process_symbol has built
    message_limit,       \* SharedState.message_limit
    messages_sent,       \* SharedState.messages_sent
    lock,                \* holder of SharedState.lock
    limit_reached_event, \* SharedState.limit_reached_event
    message_queue,       \* the delivery queue
    wpc,                 \* where each message_worker is
    wmsg,                \* the message a worker holds
    wakeAt,              \* end of a worker's rate-limit sleep
    attempt,             \* send_telegram_message: attempt, per caller
    delay,               \* send_telegram_message: delay, per caller
    slept,               \* send_telegram_message: length of the last sleep
    sent_timestamps,     \* _sent_timestamps
    puts,                \* history: messages each processor has enqueued
    sentinels,           \* history: sentinels enqueued
    dequeued,            \* history: messages taken by workers
    delivered,           \* history: messages whose send succeeded
    sendLog,             \* history: start times of the workers' sends
    recorded,            \* history: timestamps appended to _sent_timestamps
    attempts,            \* history: bot.send_message calls that have returned
                         \* or raised, per message
    deliveries,          \* history: bot.send_message calls that succeeded,
                         \* per message
    transients,          \* history: bot.send_message calls that failed with
                         \* anything but RetryAfter, per message
    fetchFaults,         \* history: empty fetch attempts so far
    sendFaults           \* history: failed send attempts so far

vars == <<mainPc, run, intervals, symbols, now, pc, semaphore, task, signals,
          message, message_limit, messages_sent, lock, limit_reached_event,
          message_queue, wpc, wmsg, wakeAt, attempt, delay, slept,
          sent_timestamps, puts, sentinels, dequeued, delivered, sendLog,
          recorded, attempts, deliveries, transients, fetchFaults, sendFaults>>

mainVars == <<mainPc, run, intervals, symbols>>
procVars == <<pc, semaphore, task, signals, message, puts, fetchFaults>>
budgetVars == <<message_limit, messages_sent, lock, limit_reached_event>>
workerVars == <<wpc, wmsg, wakeAt, sent_timestamps, dequeued, delivered, sendLog,
                recorded>>
sendVars == <<attempt, delay, slept, sendFaults, attempts, deliveries,
              transients>>

\* The inputs of a run.  Each run fixes the wall clock, the listing, the bars
\* the exchange serves (feed), the message cap and how many fetch and send
\* attempts may fail.
RetryAfters == {3}

Listing(n) == SubSeq(SymbolNames, 1, n)

RunInput(minute, listing, feed, limit, ff, sf) ==
    [manual |-> FALSE, hour |-> 1, minute |-> minute, listing |-> listing,
     feed |-> feed, limit |-> limit, fetchFaults |-> ff, sendFaults |-> sf]

Hours == 0..23
Minutes == 0..59

\* kline lists of at most MaxBars bars, of which fetch_and_analyze drops the
\* last one
ShortBars == {Bar(5, 3), Bar(3, 5), BadBar("text")}
ShortKlines == UNION {[1..n -> ShortBars] : n \in 1..MaxBars}

Runs ==
    {   \* many instruments race for a small budget
        RunInput(5, <<"USDCUSDT">> \o Listing(NumSymbols), {KlineLong, KlineFlat},
                 MaxMessageLimit - 1, 0, 0),
        \* several messages reach the workers at once
        RunInput(5, Listing(NumSymbols - 1), {KlineLong},
                 MaxMessageLimit, 0, 0),
        \* one message over an unreliable transport
        RunInput(5, Listing(1), {KlineShort}, 1, 0, MaxSendFaults),
        \* one instrument, two intervals, an unreliable exchange
        RunInput(15, Listing(1), Klines, 1, MaxFetchFaults, 0),
        \* one instrument at four o'clock: five intervals with the same signal
        [RunInput(0, Listing(1), {KlineLong}, 1, 0, 0) EXCEPT !.hour = 4],
        \* one instrument whose interval has too few bars
        RunInput(5, Listing(1), ShortKlines, 1, 0, 0),
        \* an empty universe
        RunInput(5, <<"usdcusdt">>, Klines, 1, 0, MaxSendFaults),
        RunInput(5, <<>>, Klines, 1, 0, 0)
    }
    \cup
    \* runs at a wrong time
    {[RunInput(m, Listing(1), Klines, 1, 0, 0) EXCEPT !.hour = h] :
        h \in Hours, m \in {x \in Minutes : x % 5 # 0}}

NoTask == [st |-> "none", n |-> 0, sl |-> 0, kl |-> <<>>, res |-> ""]

\* every wall clock and both settings of MANUAL_RUN, with nothing listed
Clocks ==
    {[RunInput(m, <<>>, {}, 1, 0, 0) EXCEPT !.manual = f, !.hour = h] :
        f \in BOOLEAN, h \in Hours, m \in Minutes}

\* the state in which main() is entered
Entry ==
    /\ mainPc = "start"
    /\ intervals = <<>>
    /\ symbols = <<>>
    /\ now = 0
    /\ pc = [s \in Universe |-> "idle"]
    /\ semaphore = MAX_CONCURRENT_TASKS
    /\ task = [s \in Universe |-> [k \in Range(IntervalKeys) |-> NoTask]]
    /\ signals = [s \in Universe |-> <<>>]
    /\ message = [s \in Universe |-> NoMessage]
    /\ message_limit = run.limit
    /\ messages_sent = 0
    /\ lock = NoOne
    /\ limit_reached_event = FALSE
    /\ message_queue = <<>>
    /\ wpc = [w \in Workers |-> "idle"]
    /\ wmsg = [w \in Workers |-> NoMessage]
    /\ wakeAt = [w \in Workers |-> 0]
    /\ attempt = [x \in Senders |-> 0]
    /\ delay = [x \in Senders |-> 0]
    /\ slept = [x \in Senders |-> 0]
    /\ sent_timestamps = <<>>
    /\ puts = [s \in Universe |-> 0]
    /\ sentinels = 0
    /\ dequeued = 0
    /\ delivered = 0
    /\ sendLog = <<>>
    /\ recorded = 0
    /\ attempts = [i \in MessageIds |-> 0]
    /\ deliveries = [i \in MessageIds |-> 0]
    /\ transients = [i \in MessageIds |-> 0]
    /\ fetchFaults = 0
    /\ sendFaults = 0

Init ==
    /\ run \in Runs
    /\ Entry


(***************************************************************************)
(* main(): the orchestrator.                                               *)
(***************************************************************************)
Holding(s) == pc[s] \in {"gathering", "locked", "enqueue"}
AllSettled(s) == \A k \in Range(intervals) : task[s][k].st = "settled"

\* MainStart without the else branch of main.py 203-205: a run at a wrong
\* time goes on with what the ladder left
MainStartAnyTime ==
    /\ mainPc = "start"
    /\ mainPc' = "listing"
    /\ intervals' = ActiveIntervals(run.manual, run.hour, run.minute)
    /\ UNCHANGED <<run, symbols, now>>
    /\ UNCHANGED <<procVars, budgetVars, workerVars, sendVars>>
    /\ UNCHANGED <<message_queue, sentinels>>

\* main.py 175-205: the interval ladder; a run at a wrong time ends here
MainStart ==
    /\ mainPc = "start"
    /\ IF WrongTime(run.manual, run.minute)
         THEN /\ mainPc' = "done"
              /\ UNCHANGED intervals
         ELSE /\ mainPc' = "listing"
              /\ intervals' = ActiveIntervals(run.manual, run.hour, run.minute)
    /\ UNCHANGED <<run, symbols, now>>
    /\ UNCHANGED <<procVars, budgetVars, workerVars, sendVars>>
    /\ UNCHANGED <<message_queue, sentinels>>

\* MainListed that launches the workers before it looks at the universe
MainListedWorkersFirst ==
    /\ mainPc = "listing"
    /\ LET filtered == SelectSeq(run.listing, LAMBDA x : Upper(x) \notin excluded_symbols)
         IN  /\ symbols' = filtered
             /\ wpc' = [w \in Workers |-> "get"]
             /\ IF filtered = <<>>
                  THEN /\ mainPc' = "notify"
                       /\ attempt' = [attempt EXCEPT ![MainSender] = 1]
                       /\ delay' = [delay EXCEPT ![MainSender] = initial_delay]
                       /\ UNCHANGED pc
                  ELSE /\ mainPc' = "running"
                       /\ pc' = [s \in Universe |->
                                   IF s \in Range(filtered) THEN "waiting" ELSE pc[s]]
                       /\ UNCHANGED <<attempt, delay>>
    /\ UNCHANGED <<run, intervals, now, semaphore, task, signals, message, puts,
                   fetchFaults, budgetVars, message_queue, sentinels, wmsg, wakeAt,
                   sent_timestamps, dequeued, delivered, sendLog, slept, sendFaults,
                   recorded, attempts, deliveries, transients>>

\* main.py 219-256: the listing returns; either the empty-universe
\* notification is started, or the workers and the processors are launched
MainListed ==
    /\ mainPc = "listing"
    /\ LET filtered == SelectSeq(run.listing, LAMBDA x : Upper(x) \notin excluded_symbols)
         IN  /\ symbols' = filtered
             /\ IF filtered = <<>>
                  THEN /\ mainPc' = "notify"
                       /\ attempt' = [attempt EXCEPT ![MainSender] = 1]
                       /\ delay' = [delay EXCEPT ![MainSender] = initial_delay]
                       /\ UNCHANGED <<pc, wpc>>
                  ELSE /\ mainPc' = "running"
                       /\ pc' = [s \in Universe |->
                                   IF s \in Range(filtered) THEN "waiting" ELSE pc[s]]
                       /\ wpc' = [w \in Workers |-> "get"]
                       /\ UNCHANGED <<attempt, delay>>
    /\ UNCHANGED <<run, intervals, now, semaphore, task, signals, message, puts,
                   fetchFaults, budgetVars, message_queue, sentinels, wmsg, wakeAt,
                   sent_timestamps, dequeued, delivered, sendLog, slept, sendFaults,
                   recorded, attempts, deliveries, transients>>

\* MainSentinels with range(MAX_WORKERS - 1): one sentinel too few
MainSentinelsShort ==
    /\ mainPc = "running"
    /\ \A s \in Range(symbols) : pc[s] = "done"
    /\ message_queue' = message_queue \o [i \in 1..(MAX_WORKERS - 1) |-> EXIT]
    /\ sentinels' = sentinels + (MAX_WORKERS - 1)
    /\ mainPc' = "draining"
    /\ UNCHANGED <<run, intervals, symbols, now>>
    /\ UNCHANGED <<procVars, budgetVars, workerVars, sendVars>>

\* MainSentinels that does not wait for gather: the sentinels are enqueued as
\* soon as one process_symbol has finished
MainSentinelsEarly ==
    /\ mainPc = "running"
    /\ \E s \in Range(symbols) : pc[s] = "done"
    /\ message_queue' = message_queue \o [i \in 1..MAX_WORKERS |-> EXIT]
    /\ sentinels' = sentinels + MAX_WORKERS
    /\ mainPc' = "draining"
    /\ UNCHANGED <<run, intervals, symbols, now>>
    /\ UNCHANGED <<procVars, budgetVars, workerVars, sendVars>>

\* main.py 256-260: every process_symbol has finished; one "EXIT" per worker
MainSentinels ==
    /\ mainPc = "running"
    /\ \A s \in Range(symbols) : pc[s] = "done"
    /\ message_queue' = message_queue \o [i \in 1..MAX_WORKERS |-> EXIT]
    /\ sentinels' = sentinels + MAX_WORKERS
    /\ mainPc' = "draining"
    /\ UNCHANGED <<run, intervals, symbols, now>>
    /\ UNCHANGED <<procVars, budgetVars, workerVars, sendVars>>

\* main.py 263 and messaging.py 120: every worker has returned
MainJoin ==
    /\ mainPc = "draining"
    /\ \A w \in Workers : wpc[w] = "exited"
    /\ mainPc' = "done"
    /\ UNCHANGED <<run, intervals, symbols, now>>
    /\ UNCHANGED <<procVars, budgetVars, workerVars, sendVars>>
    /\ UNCHANGED <<message_queue, sentinels>>

\* The wall clock advances.  now is read only by the workers, and only to
\* compare it with the time of an earlier send, so it is counted from the
\* first send.
Tick ==
    /\ mainPc \in {"running", "draining"}
    /\ sendLog # <<>>
    /\ \/ now < MaxTicks * TickSeconds
       \/ \E w \in Workers : wpc[w] = "limited" /\ now < wakeAt[w]
    /\ now' = now + TickSeconds
    /\ UNCHANGED <<mainPc, run, intervals, symbols>>
    /\ UNCHANGED <<procVars, budgetVars, workerVars, sendVars>>
    /\ UNCHANGED <<message_queue, sentinels>>

(***************************************************************************)
(* process_symbol and fetch_and_analyze.                                   *)
(***************************************************************************)
\* ProcAdmit without the semaphore: every processor is admitted at once
ProcAdmitUngated(s) ==
    /\ pc[s] = "waiting"
    /\ IF limit_reached_event
         THEN /\ pc' = [pc EXCEPT ![s] = "done"]
              /\ UNCHANGED <<semaphore, task>>
         ELSE /\ pc' = [pc EXCEPT ![s] = "gathering"]
              /\ semaphore' = semaphore - 1
              /\ task' = [task EXCEPT ![s] =
                            [k \in Range(IntervalKeys) |->
                               IF k \in Range(intervals)
                                 THEN [st |-> "pending", n |-> 0, sl |-> 0, kl |-> <<>>, res |-> ""]
                                 ELSE NoTask]]
    /\ UNCHANGED <<signals, message, puts, fetchFaults>>
    /\ UNCHANGED <<mainVars, now, budgetVars, workerVars, sendVars>>
    /\ UNCHANGED <<message_queue, sentinels>>

\* ProcAdmit that compares the counter itself at line 132 and sets the flag
\* there, outside the lock
ProcAdmitCutsOff(s) ==
    /\ pc[s] = "waiting"
    /\ semaphore > 0
    /\ IF limit_reached_event \/ messages_sent >= message_limit
         THEN /\ pc' = [pc EXCEPT ![s] = "done"]
              /\ limit_reached_event' = TRUE
              /\ UNCHANGED <<semaphore, task>>
         ELSE /\ pc' = [pc EXCEPT ![s] = "gathering"]
              /\ semaphore' = semaphore - 1
              /\ task' = [task EXCEPT ![s] =
                            [k \in Range(IntervalKeys) |->
                               IF k \in Range(intervals)
                                 THEN [st |-> "pending", n |-> 0, sl |-> 0,
                                       kl |-> <<>>, res |-> ""]
                                 ELSE NoTask]]
              /\ UNCHANGED limit_reached_event
    /\ UNCHANGED <<signals, message, puts, fetchFaults>>
    /\ UNCHANGED <<message_limit, messages_sent, lock>>
    /\ UNCHANGED <<mainVars, now, workerVars, sendVars>>
    /\ UNCHANGED <<message_queue, sentinels>>

\* main.py 131-141: a permit is free; the cutoff check, then the fan-out
ProcAdmit(s) ==
    /\ pc[s] = "waiting"
    /\ semaphore > 0
    /\ IF limit_reached_event
         THEN /\ pc' = [pc EXCEPT ![s] = "done"]
              /\ UNCHANGED <<semaphore, task>>
         ELSE /\ pc' = [pc EXCEPT ![s] = "gathering"]
              /\ semaphore' = semaphore - 1
              /\ task' = [task EXCEPT ![s] =
                            [k \in Range(IntervalKeys) |->
                               IF k \in Range(intervals)
                                 THEN [st |-> "pending", n |-> 0, sl |-> 0, kl |-> <<>>, res |-> ""]
                                 ELSE NoTask]]
    /\ UNCHANGED <<signals, message, puts, fetchFaults>>
    /\ UNCHANGED <<mainVars, now, budgetVars, workerVars, sendVars>>
    /\ UNCHANGED <<message_queue, sentinels>>

\* TaskStart without the check of line 58: the fetch is always issued
TaskStartUnchecked(s, k) ==
    /\ pc[s] = "gathering"
    /\ task[s][k].st = "pending"
    /\ task' = [task EXCEPT ![s][k] = [st |-> "fetching", n |-> 1, sl |-> 0, kl |-> <<>>, res |-> ""]]
    /\ UNCHANGED <<pc, semaphore, signals, message, puts, fetchFaults>>
    /\ UNCHANGED <<mainVars, now, budgetVars, workerVars, sendVars>>
    /\ UNCHANGED <<message_queue, sentinels>>

\* main.py 58-63: an interval task starts: the cutoff check, then the first
\* get_historical_kline_data call
TaskStart(s, k) ==
    /\ pc[s] = "gathering"
    /\ task[s][k].st = "pending"
    /\ task' = [task EXCEPT ![s][k] =
                  IF limit_reached_event
                    THEN [st |-> "settled", n |-> 0, sl |-> 0, kl |-> <<>>, res |-> "cutoff"]
                    ELSE [st |-> "fetching", n |-> 1, sl |-> 0, kl |-> <<>>, res |-> ""]]
    /\ UNCHANGED <<pc, semaphore, signals, message, puts, fetchFaults>>
    /\ UNCHANGED <<mainVars, now, budgetVars, workerVars, sendVars>>
    /\ UNCHANGED <<message_queue, sentinels>>

\* RetriesLeft with <= for <: a sleep and a call after the last attempt
RetriesLeftLax(n) == n <= retries

\* the test of bybit_api.py 111: is this attempt followed by another one?
RetriesLeft(n) == n < retries

\* FetchReturn in which the exhausted retries end the whole gather: the
\* sibling interval tasks of the instrument are lost with it
FetchReturnFatal(s, k) ==
    /\ task[s][k].st = "fetching"
    /\ \/ \E kline \in run.feed :
            LET r == Evaluate(kline)
            IN  /\ task' = [task EXCEPT ![s][k] =
                              [st |-> "settled", n |-> @.n, sl |-> @.sl, kl |-> kline,
                               res |-> r]]
                /\ signals' = [signals EXCEPT ![s] =
                      IF r = "long" THEN AppendSignal(@, "LONG", Label(k))
                      ELSE IF r = "short" THEN AppendSignal(@, "SHORT", Label(k))
                      ELSE @]
                /\ UNCHANGED fetchFaults
       \/ /\ fetchFaults < run.fetchFaults
          /\ fetchFaults' = fetchFaults + 1
          /\ task' = [task EXCEPT ![s] =
                        IF RetriesLeft(@[k].n)
                          THEN [@ EXCEPT ![k] = [st |-> "sleeping", n |-> @.n,
                                                 sl |-> @.sl + 1, kl |-> <<>>, res |-> ""]]
                          ELSE [j \in Range(IntervalKeys) |->
                                  IF @[j].st = "none" THEN @[j]
                                  ELSE [st |-> "settled", n |-> @[j].n,
                                        sl |-> @[j].sl, kl |-> <<>>, res |-> "nodata"]]]
          /\ UNCHANGED signals
    /\ UNCHANGED <<pc, semaphore, message, puts>>
    /\ UNCHANGED <<mainVars, now, budgetVars, workerVars, sendVars>>
    /\ UNCHANGED <<message_queue, sentinels>>

\* bybit_api.py 97-116 and main.py 64-104: a fetch attempt returns, with
\* bars (which are evaluated) or empty (retry after a sleep, or give up)
FetchReturn(s, k) ==
    /\ task[s][k].st = "fetching"
    /\ \/ \E kline \in run.feed :
            LET r == Evaluate(kline)
            IN  /\ task' = [task EXCEPT ![s][k] =
                              [st |-> "settled", n |-> @.n, sl |-> @.sl, kl |-> kline,
                               res |-> r]]
                /\ signals' = [signals EXCEPT ![s] =
                      IF r = "long" THEN AppendSignal(@, "LONG", Label(k))
                      ELSE IF r = "short" THEN AppendSignal(@, "SHORT", Label(k))
                      ELSE @]
                /\ UNCHANGED fetchFaults
       \/ /\ fetchFaults < run.fetchFaults
          /\ fetchFaults' = fetchFaults + 1
          /\ task' = [task EXCEPT ![s][k] =
                        IF RetriesLeft(@.n)
                          THEN [st |-> "sleeping", n |-> @.n, sl |-> @.sl + 1, kl |-> <<>>, res |-> ""]
                          ELSE [st |-> "settled", n |-> @.n, sl |-> @.sl, kl |-> <<>>, res |-> "nodata"]]
          /\ UNCHANGED signals
    /\ UNCHANGED <<pc, semaphore, message, puts>>
    /\ UNCHANGED <<mainVars, now, budgetVars, workerVars, sendVars>>
    /\ UNCHANGED <<message_queue, sentinels>>

\* bybit_api.py 113, 97-99: the retry sleep ends and the next attempt starts
FetchRetry(s, k) ==
    /\ task[s][k].st = "sleeping"
    /\ task' = [task EXCEPT ![s][k] =
                  [st |-> "fetching", n |-> @.n + 1, sl |-> @.sl, kl |-> <<>>, res |-> ""]]
    /\ UNCHANGED <<pc, semaphore, signals, message, puts, fetchFaults>>
    /\ UNCHANGED <<mainVars, now, budgetVars, workerVars, sendVars>>
    /\ UNCHANGED <<message_queue, sentinels>>

\* ProcNoSignals placed after the reservation: a processor without signals
\* takes a unit of the budget before it returns
ProcNoSignalsReserved(s) ==
    /\ pc[s] = "gathering"
    /\ AllSettled(s)
    /\ signals[s] = <<>>
    /\ lock = NoOne
    /\ pc' = [pc EXCEPT ![s] = "done"]
    /\ semaphore' = semaphore + 1
    /\ IF messages_sent >= message_limit
         THEN limit_reached_event' = TRUE /\ UNCHANGED messages_sent
         ELSE messages_sent' = messages_sent + 1 /\ UNCHANGED limit_reached_event
    /\ UNCHANGED <<task, signals, message, puts, fetchFaults>>
    /\ UNCHANGED <<message_limit, lock>>
    /\ UNCHANGED <<mainVars, now, workerVars, sendVars>>
    /\ UNCHANGED <<message_queue, sentinels>>

\* main.py 141-145: gather has returned and there is no signal
ProcNoSignals(s) ==
    /\ pc[s] = "gathering"
    /\ AllSettled(s)
    /\ signals[s] = <<>>
    /\ pc' = [pc EXCEPT ![s] = "done"]
    /\ semaphore' = semaphore + 1
    /\ UNCHANGED <<task, signals, message, puts, fetchFaults>>
    /\ UNCHANGED <<mainVars, now, budgetVars, workerVars, sendVars>>
    /\ UNCHANGED <<message_queue, sentinels>>

\* ProcAcquire resuming as soon as one interval task has settled
ProcAcquireEarly(s) ==
    /\ pc[s] = "gathering"
    /\ \E k \in Range(intervals) : task[s][k].st = "settled"
    /\ signals[s] # <<>>
    /\ lock = NoOne
    /\ \E m \in BuildMessages(s, signals[s]) :
         message' = [message EXCEPT ![s] = m]
    /\ lock' = s
    /\ pc' = [pc EXCEPT ![s] = "locked"]
    /\ UNCHANGED <<semaphore, task, signals, puts, fetchFaults>>
    /\ UNCHANGED <<message_limit, messages_sent, limit_reached_event>>
    /\ UNCHANGED <<mainVars, now, workerVars, sendVars>>
    /\ UNCHANGED <<message_queue, sentinels>>

\* ProcAcquire with a cutoff check after gather: return if the flag is set
ProcAcquireChecked(s) ==
    /\ pc[s] = "gathering"
    /\ AllSettled(s)
    /\ signals[s] # <<>>
    /\ IF limit_reached_event
         THEN /\ pc' = [pc EXCEPT ![s] = "done"]
              /\ semaphore' = semaphore + 1
              /\ UNCHANGED <<message, lock>>
         ELSE /\ lock = NoOne
              /\ \E m \in BuildMessages(s, signals[s]) :
                   message' = [message EXCEPT ![s] = m]
              /\ lock' = s
              /\ pc' = [pc EXCEPT ![s] = "locked"]
              /\ UNCHANGED semaphore
    /\ UNCHANGED <<task, signals, puts, fetchFaults>>
    /\ UNCHANGED <<message_limit, messages_sent, limit_reached_event>>
    /\ UNCHANGED <<mainVars, now, workerVars, sendVars>>
    /\ UNCHANGED <<message_queue, sentinels>>

\* main.py 141-160: gather has returned with signals; the message is built
\* and the budget lock is taken
ProcAcquire(s) ==
    /\ pc[s] = "gathering"
    /\ AllSettled(s)
    /\ signals[s] # <<>>
    /\ lock = NoOne
    /\ \E m \in BuildMessages(s, signals[s]) :
         message' = [message EXCEPT ![s] = m]
    /\ lock' = s
    /\ pc' = [pc EXCEPT ![s] = "locked"]
    /\ UNCHANGED <<semaphore, task, signals, puts, fetchFaults>>
    /\ UNCHANGED <<message_limit, messages_sent, limit_reached_event>>
    /\ UNCHANGED <<mainVars, now, workerVars, sendVars>>
    /\ UNCHANGED <<message_queue, sentinels>>

\* LimitReached with > for >=: one reservation too many
LimitReachedStrict(sent, limit) == sent > limit

\* LimitReached that counts the reservation being made: one too few
LimitReachedEarly(sent, limit) == sent + 1 >= limit

\* the test of main.py 161
LimitReached(sent, limit) == sent >= limit

\* ProcReserve whose refusal returns without giving the permit back
ProcReserveLeak(s) ==
    /\ pc[s] = "locked"
    /\ lock = s
    /\ lock' = NoOne
    /\ IF LimitReached(messages_sent, message_limit)
         THEN /\ limit_reached_event' = TRUE
              /\ pc' = [pc EXCEPT ![s] = "done"]
              /\ UNCHANGED <<messages_sent, semaphore>>
         ELSE /\ messages_sent' = messages_sent + 1
              /\ pc' = [pc EXCEPT ![s] = "enqueue"]
              /\ UNCHANGED <<limit_reached_event, semaphore>>
    /\ UNCHANGED <<task, signals, message, puts, fetchFaults, message_limit>>
    /\ UNCHANGED <<mainVars, now, workerVars, sendVars>>
    /\ UNCHANGED <<message_queue, sentinels>>

\* ProcReserve that sets the flag with the reservation that uses up the budget
ProcReserveEager(s) ==
    /\ pc[s] = "locked"
    /\ lock = s
    /\ lock' = NoOne
    /\ IF LimitReached(messages_sent, message_limit)
         THEN /\ limit_reached_event' = TRUE
              /\ pc' = [pc EXCEPT ![s] = "done"]
              /\ semaphore' = semaphore + 1
              /\ UNCHANGED messages_sent
         ELSE /\ messages_sent' = messages_sent + 1
              /\ limit_reached_event' = LimitReached(messages_sent + 1, message_limit)
              /\ pc' = [pc EXCEPT ![s] = "enqueue"]
              /\ UNCHANGED semaphore
    /\ UNCHANGED <<task, signals, message, puts, fetchFaults, message_limit>>
    /\ UNCHANGED <<mainVars, now, workerVars, sendVars>>
    /\ UNCHANGED <<message_queue, sentinels>>

\* main.py 161-165: the reservation under the lock
ProcReserve(s) ==
    /\ pc[s] = "locked"
    /\ lock = s
    /\ lock' = NoOne
    /\ IF LimitReached(messages_sent, message_limit)
         THEN /\ limit_reached_event' = TRUE
              /\ pc' = [pc EXCEPT ![s] = "done"]
              /\ semaphore' = semaphore + 1
              /\ UNCHANGED messages_sent
         ELSE /\ messages_sent' = messages_sent + 1
              /\ pc' = [pc EXCEPT ![s] = "enqueue"]
              /\ UNCHANGED <<limit_reached_event, semaphore>>
    /\ UNCHANGED <<task, signals, message, puts, fetchFaults, message_limit>>
    /\ UNCHANGED <<mainVars, now, workerVars, sendVars>>
    /\ UNCHANGED <<message_queue, sentinels>>

\* main.py 167 and the end of the semaphore block
ProcEnqueue(s) ==
    /\ pc[s] = "enqueue"
    /\ message_queue' = Append(message_queue, message[s])
    /\ puts' = [puts EXCEPT ![s] = @ + 1]
    /\ pc' = [pc EXCEPT ![s] = "done"]
    /\ semaphore' = semaphore + 1
    /\ UNCHANGED <<task, signals, message, fetchFaults, sentinels>>
    /\ UNCHANGED <<mainVars, now, budgetVars, workerVars, sendVars>>


(***************************************************************************)
(* send_telegram_message (messaging.py 33-64), run by a worker or by       *)
(* main() for the empty-universe notification.                             *)
(***************************************************************************)
SendFailures == {"retry_after", "timed_out", "telegram_error", "error"}

\* messaging.py 33-38: the first bot.send_message call is issued
BeginSend(x) ==
    /\ attempt' = [attempt EXCEPT ![x] = 1]
    /\ delay' = [delay EXCEPT ![x] = initial_delay]

\* the sleep of messaging.py 48 / 51 / 55 / 59
BackoffSleep(kind, d, retry_after) == IF kind = "retry_after" THEN retry_after ELSE d

\* NextDelay that grows the delay after every failure, RetryAfter included
NextDelayAlways(kind, d) == d * backoff_factor

\* the delay after messaging.py 52 / 56 / 60
NextDelay(kind, d) == IF kind = "retry_after" THEN d ELSE d * backoff_factor

\* messaging.py 46-60: an attempt of caller x to send message i failed;
\* the caller goes to sleep
SendFailed(x, i) ==
    /\ sendFaults < run.sendFaults
    /\ sendFaults' = sendFaults + 1
    /\ \E kind \in SendFailures, ra \in RetryAfters :
         /\ slept' = [slept EXCEPT ![x] = BackoffSleep(kind, delay[x], ra)]
         /\ delay' = [delay EXCEPT ![x] = NextDelay(kind, delay[x])]
         /\ transients' = [transients EXCEPT ![i] =
                             IF kind = "retry_after" THEN @ ELSE @ + 1]
    /\ UNCHANGED attempt

\* AttemptsLeft with "attempt <= max_attempts" tested before the increment:
\* one attempt more
AttemptsLeftLax(a) == a <= max_attempts

\* messaging.py 36, 62: are there attempts left after this one?
AttemptsLeft(a) == a + 1 <= max_attempts

(***************************************************************************)
(* message_worker (messaging.py 77-103).                                   *)
(***************************************************************************)
\* messaging.py 97-98: the worker calls send_telegram_message
WorkerBeginSend(w) ==
    /\ wpc' = [wpc EXCEPT ![w] = "sending"]
    /\ sendLog' = Append(sendLog, now)
    /\ BeginSend(w)

\* messaging.py 99-103 and back to 78: send_telegram_message has returned
WorkerRecord(w) ==
    /\ sent_timestamps' = Append(sent_timestamps, now)
    /\ recorded' = recorded + 1
    /\ wpc' = [wpc EXCEPT ![w] = "get"]
    /\ wmsg' = [wmsg EXCEPT ![w] = NoMessage]

\* the test of messaging.py 89
RateLimited(win) == Len(win) >= MESSAGES_PER_MINUTE

\* WorkerGet without the break of messaging.py 82: a sentinel is consumed and
\* the worker goes back to the queue
WorkerGetKeepsOn(w) ==
    /\ wpc[w] = "get"
    /\ message_queue # <<>>
    /\ message_queue' = Tail(message_queue)
    /\ IF Head(message_queue) = EXIT
         THEN UNCHANGED <<wpc, wmsg, wakeAt, sent_timestamps, dequeued, sendLog,
                          attempt, delay>>
         ELSE LET win == Purge(sent_timestamps, now)
              IN  /\ wmsg' = [wmsg EXCEPT ![w] = Head(message_queue)]
                  /\ dequeued' = dequeued + 1
                  /\ sent_timestamps' = win
                  /\ IF RateLimited(win)
                       THEN /\ wpc' = [wpc EXCEPT ![w] = "limited"]
                            /\ wakeAt' = [wakeAt EXCEPT ![w] =
                                            now + (WINDOW_SECONDS - (now - win[1]))]
                            /\ UNCHANGED <<sendLog, attempt, delay>>
                       ELSE /\ WorkerBeginSend(w)
                            /\ UNCHANGED wakeAt
    /\ UNCHANGED <<delivered, slept, sendFaults, sentinels>>
    /\ UNCHANGED <<recorded, attempts, deliveries, transients>>
    /\ UNCHANGED <<mainVars, now, procVars, budgetVars>>

\* messaging.py 78-98: an item is dequeued; a sentinel ends the worker, a
\* message goes through the rate limiter and is sent or waits
WorkerGet(w) ==
    /\ wpc[w] = "get"
    /\ message_queue # <<>>
    /\ message_queue' = Tail(message_queue)
    /\ IF Head(message_queue) = EXIT
         THEN /\ wpc' = [wpc EXCEPT ![w] = "exited"]
              /\ UNCHANGED <<wmsg, wakeAt, sent_timestamps, dequeued, sendLog,
                             attempt, delay>>
         ELSE LET win == Purge(sent_timestamps, now)
              IN  /\ wmsg' = [wmsg EXCEPT ![w] = Head(message_queue)]
                  /\ dequeued' = dequeued + 1
                  /\ sent_timestamps' = win
                  /\ IF RateLimited(win)
                       THEN /\ wpc' = [wpc EXCEPT ![w] = "limited"]
                            /\ wakeAt' = [wakeAt EXCEPT ![w] =
                                            now + (WINDOW_SECONDS - (now - win[1]))]
                            /\ UNCHANGED <<sendLog, attempt, delay>>
                       ELSE /\ WorkerBeginSend(w)
                            /\ UNCHANGED wakeAt
    /\ UNCHANGED <<delivered, slept, sendFaults, sentinels>>
    /\ UNCHANGED <<recorded, attempts, deliveries, transients>>
    /\ UNCHANGED <<mainVars, now, procVars, budgetVars>>

\* WorkerWake whose sleep may end before the computed wait is over
WorkerWakeEarly(w) ==
    /\ wpc[w] = "limited"
    /\ sent_timestamps' = Purge(sent_timestamps, now)
    /\ WorkerBeginSend(w)
    /\ UNCHANGED <<wmsg, wakeAt, dequeued, delivered, slept, sendFaults>>
    /\ UNCHANGED <<recorded, attempts, deliveries, transients>>
    /\ UNCHANGED <<mainVars, now, procVars, budgetVars>>
    /\ UNCHANGED <<message_queue, sentinels>>

\* messaging.py 92-98: the rate-limit sleep is over
WorkerWake(w) ==
    /\ wpc[w] = "limited"
    /\ now >= wakeAt[w]
    /\ sent_timestamps' = Purge(sent_timestamps, now)
    /\ WorkerBeginSend(w)
    /\ UNCHANGED <<wmsg, wakeAt, dequeued, delivered, slept, sendFaults>>
    /\ UNCHANGED <<recorded, attempts, deliveries, transients>>
    /\ UNCHANGED <<mainVars, now, procVars, budgetVars>>
    /\ UNCHANGED <<message_queue, sentinels>>

\* messaging.py 38-45, 99: the send succeeded
WorkerSendOk(w) ==
    /\ wpc[w] = "sending"
    /\ WorkerRecord(w)
    /\ delivered' = delivered + 1
    /\ attempts' = [attempts EXCEPT ![wmsg[w].symbol] = @ + 1]
    /\ deliveries' = [deliveries EXCEPT ![wmsg[w].symbol] = @ + 1]
    /\ UNCHANGED transients
    /\ UNCHANGED <<wakeAt, dequeued, sendLog, attempt, delay, slept, sendFaults>>
    /\ UNCHANGED <<mainVars, now, procVars, budgetVars>>
    /\ UNCHANGED <<message_queue, sentinels>>

\* messaging.py 46-60: the send failed
WorkerSendFailed(w) ==
    /\ wpc[w] = "sending"
    /\ SendFailed(w, wmsg[w].symbol)
    /\ wpc' = [wpc EXCEPT ![w] = "backoff"]
    /\ attempts' = [attempts EXCEPT ![wmsg[w].symbol] = @ + 1]
    /\ UNCHANGED <<wmsg, wakeAt, sent_timestamps, dequeued, delivered, sendLog>>
    /\ UNCHANGED <<recorded, deliveries>>
    /\ UNCHANGED <<mainVars, now, procVars, budgetVars>>
    /\ UNCHANGED <<message_queue, sentinels>>

\* WorkerBackoffWake that puts a message it gives up back on the queue
WorkerBackoffWakeRequeue(w) ==
    /\ wpc[w] = "backoff"
    /\ attempt' = [attempt EXCEPT ![w] = @ + 1]
    /\ IF AttemptsLeft(attempt[w])
         THEN /\ wpc' = [wpc EXCEPT ![w] = "sending"]
              /\ UNCHANGED <<wmsg, sent_timestamps, recorded, message_queue>>
         ELSE /\ WorkerRecord(w)
              /\ message_queue' = Append(message_queue, wmsg[w])
    /\ UNCHANGED <<wakeAt, dequeued, delivered, sendLog, delay, slept, sendFaults>>
    /\ UNCHANGED <<attempts, deliveries, transients>>
    /\ UNCHANGED <<mainVars, now, procVars, budgetVars>>
    /\ UNCHANGED sentinels

\* WorkerBackoffWake that gives the budget unit of a dropped message back
WorkerBackoffWakeRefund(w) ==
    /\ wpc[w] = "backoff"
    /\ attempt' = [attempt EXCEPT ![w] = @ + 1]
    /\ IF AttemptsLeft(attempt[w])
         THEN /\ wpc' = [wpc EXCEPT ![w] = "sending"]
              /\ UNCHANGED <<wmsg, sent_timestamps, recorded, messages_sent>>
         ELSE /\ WorkerRecord(w)
              /\ messages_sent' = messages_sent - 1
    /\ UNCHANGED <<wakeAt, dequeued, delivered, sendLog, delay, slept, sendFaults>>
    /\ UNCHANGED <<attempts, deliveries, transients>>
    /\ UNCHANGED <<mainVars, now, procVars>>
    /\ UNCHANGED <<message_limit, lock, limit_reached_event>>
    /\ UNCHANGED <<message_queue, sentinels>>

\* messaging.py 62, 36-38 or 64, 99: the backoff sleep is over; the next
\* attempt is issued, or the message is given up
WorkerBackoffWake(w) ==
    /\ wpc[w] = "backoff"
    /\ attempt' = [attempt EXCEPT ![w] = @ + 1]
    /\ IF AttemptsLeft(attempt[w])
         THEN /\ wpc' = [wpc EXCEPT ![w] = "sending"]
              /\ UNCHANGED <<wmsg, sent_timestamps, recorded>>
         ELSE WorkerRecord(w)
    /\ UNCHANGED <<wakeAt, dequeued, delivered, sendLog, delay, slept, sendFaults>>
    /\ UNCHANGED <<attempts, deliveries, transients>>
    /\ UNCHANGED <<mainVars, now, procVars, budgetVars>>
    /\ UNCHANGED <<message_queue, sentinels>>

(***************************************************************************)
(* The empty-universe notification of main() (main.py 222-226).            *)
(***************************************************************************)
MainNotifyOk ==
    /\ mainPc = "notify"
    /\ mainPc' = "done"
    /\ attempts' = [attempts EXCEPT ![EmptyNotice] = @ + 1]
    /\ deliveries' = [deliveries EXCEPT ![EmptyNotice] = @ + 1]
    /\ UNCHANGED transients
    /\ UNCHANGED <<run, intervals, symbols, now>>
    /\ UNCHANGED <<procVars, budgetVars, workerVars>>
    /\ UNCHANGED <<attempt, delay, slept, sendFaults>>
    /\ UNCHANGED <<message_queue, sentinels>>

MainNotifyFailed ==
    /\ mainPc = "notify"
    /\ SendFailed(MainSender, EmptyNotice)
    /\ mainPc' = "notifyBackoff"
    /\ attempts' = [attempts EXCEPT ![EmptyNotice] = @ + 1]
    /\ UNCHANGED deliveries
    /\ UNCHANGED <<run, intervals, symbols, now>>
    /\ UNCHANGED <<procVars, budgetVars, workerVars>>
    /\ UNCHANGED <<message_queue, sentinels>>

MainNotifyWake ==
    /\ mainPc = "notifyBackoff"
    /\ attempt' = [attempt EXCEPT ![MainSender] = @ + 1]
    /\ mainPc' = IF AttemptsLeft(attempt[MainSender]) THEN "notify" ELSE "done"
    /\ UNCHANGED <<run, intervals, symbols, now>>
    /\ UNCHANGED <<procVars, budgetVars, workerVars>>
    /\ UNCHANGED <<delay, slept, sendFaults, attempts, deliveries, transients>>
    /\ UNCHANGED <<message_queue, sentinels>>

(***************************************************************************)
(* The specification.                                                      *)
(***************************************************************************)
MainStep ==
    \/ MainStart
    \/ MainListed
    \/ MainSentinels
    \/ MainJoin
    \/ MainNotifyOk
    \/ MainNotifyFailed
    \/ MainNotifyWake

TaskStep(s) ==
    \E k \in Range(IntervalKeys) :
        \/ TaskStart(s, k)
        \/ FetchReturn(s, k)
        \/ FetchRetry(s, k)

ProcStep(s) ==
    \/ ProcAdmit(s)
    \/ ProcNoSignals(s)
    \/ ProcAcquire(s)
    \/ ProcReserve(s)
    \/ ProcEnqueue(s)

WorkerStep(w) ==
    \/ WorkerGet(w)
    \/ WorkerWake(w)
    \/ WorkerSendOk(w)
    \/ WorkerSendFailed(w)
    \/ WorkerBackoffWake(w)

Next ==
    \/ MainStep
    \/ Tick
    \/ \E s \in Universe : TaskStep(s)
    \/ \E s \in Universe : ProcStep(s)
    \/ \E w \in Workers : WorkerStep(w)

Spec == Init /\ [][Next]_vars

\* main() up to the interval ladder, entered at any wall clock
LadderInit ==
    /\ run \in Clocks
    /\ Entry

LadderNext == MainStart

LadderSpec == LadderInit /\ [][LadderNext]_vars


(***************************************************************************)
(* Fairness: the event loop keeps running while any task is ready, and     *)
(* every network call and every sleep returns.  Every run is finite, so    *)
(* this is enough for each task to get its turn.                           *)
(***************************************************************************)
Fairness == WF_vars(Next)

FairSpec == Spec /\ Fairness

(***************************************************************************)
(* Derived quantities.                                                     *)
(***************************************************************************)
RECURSIVE SumOver(_, _)
SumOver(f, S) ==
    IF S = {} THEN 0
    ELSE LET x == CHOOSE y \in S : TRUE IN f[x] + SumOver(f, S \ {x})

\* messages put on the delivery queue so far, sentinels excluded
Enqueued == SumOver(puts, Universe)

\* instruments that have produced at least one directional signal
Eligible == {s \in Universe : signals[s] # <<>>}

Holders == {s \in Universe : Holding(s)}
AllProcessorsDone == symbols # <<>> /\ \A s \in Range(symbols) : pc[s] = "done"

SentinelsQueued ==
    Cardinality({i \in 1..Len(message_queue) : message_queue[i] = EXIT})

\* messages waiting on the delivery queue, sentinels excluded
MessagesQueued == Len(message_queue) - SentinelsQueued

\* workers that hold a dequeued message, and those of them that have not
\* called send_telegram_message yet (messaging.py 89-95)
Busy == {w \in Workers : wmsg[w] # NoMessage}
Limited == {w \in Workers : wpc[w] = "limited"}
Exited == {w \in Workers : wpc[w] = "exited"}

\* sends started in the 60 seconds that end with the i-th send
SendsInWindow(i) ==
    {j \in 1..Len(sendLog) :
        sendLog[j] <= sendLog[i] /\ sendLog[j] > sendLog[i] - WINDOW_SECONDS}

(***************************************************************************)
(* C1: in every reachable state messages_sent <= message_limit and the     *)
(* number of messages put on the delivery queue (sentinels excluded) is    *)
(* <= message_limit, however many processors race on the reservation.      *)
(***************************************************************************)
C1_BudgetNeverExceeded ==
    /\ messages_sent <= message_limit
    /\ Enqueued <= message_limit

\* the budget is used up and a further processor has been refused
C1_Witness ==
    /\ limit_reached_event
    /\ Enqueued = message_limit
    /\ Cardinality(Eligible) > message_limit

(***************************************************************************)
(* C2: when a run has gone to completion, exactly                          *)
(* min(message_limit, E) messages were enqueued, E being the number of     *)
(* instruments that produced at least one directional signal.              *)
(***************************************************************************)
C2_ExactlyMinEnqueued ==
    (mainPc = "done" /\ symbols # <<>>) =>
        Enqueued = Min(message_limit, Cardinality(Eligible))

\* limit 1, three eligible instruments: one message, two processors refused
C2_Witness ==
    /\ mainPc = "done"
    /\ message_limit = 1
    /\ Cardinality(Eligible) = 3
    /\ Enqueued = 1
    /\ Cardinality({s \in Universe : puts[s] = 0}) = 2

(***************************************************************************)
(* C3: the number of sends the workers start in any rolling 60-second      *)
(* interval never exceeds MESSAGES_PER_MINUTE.                             *)
(***************************************************************************)
C3_RateCapRespected ==
    \A i \in 1..Len(sendLog) : Cardinality(SendsInWindow(i)) <= MESSAGES_PER_MINUTE

(***************************************************************************)
(* C4: every instrument enqueues at most one message per run, and its      *)
(* message is built and enqueued only after all its interval tasks have    *)
(* settled.                                                                *)
(***************************************************************************)
C4_OneMessageAfterAllSettled ==
    \A s \in Universe :
        /\ puts[s] <= 1
        /\ (pc[s] \in {"locked", "enqueue"} \/ message[s] # NoMessage \/ puts[s] > 0)
              => AllSettled(s)

\* an instrument with two interval tasks has enqueued its message
C4_Witness ==
    \E s \in Universe : puts[s] = 1 /\ Len(intervals) = 2

(***************************************************************************)
(* C5: the number of processors holding a permit never exceeds the gate's  *)
(* maximum; a processor that waits at the gate has done no work, and one   *)
(* that finds the gate saturated stays waiting.                            *)
(***************************************************************************)
C5_GateBound ==
    /\ [](/\ Cardinality(Holders) <= MAX_CONCURRENT_TASKS
          /\ semaphore + Cardinality(Holders) = MAX_CONCURRENT_TASKS
          /\ \A s \in Universe :
                pc[s] = "waiting" =>
                    /\ \A k \in Range(IntervalKeys) : task[s][k] = NoTask
                    /\ signals[s] = <<>>
                    /\ puts[s] = 0)
    /\ [][\A s \in Universe :
            (pc[s] = "waiting" /\ semaphore = 0) => pc'[s] = "waiting"]_vars

\* the gate is saturated and a processor waits
C5_Witness ==
    /\ semaphore = 0
    /\ Cardinality(Holders) = MAX_CONCURRENT_TASKS
    /\ \E s \in Universe : pc[s] = "waiting"

(***************************************************************************)
(* C6: a processor gives its permit back on every way it finishes, so when *)
(* all processors have finished every permit is free, and every processor  *)
(* waiting at the gate is eventually admitted.                             *)
(***************************************************************************)
C6_PermitsReleased ==
    /\ [](AllProcessorsDone => semaphore = MAX_CONCURRENT_TASKS)
    /\ \A s \in Universe : (pc[s] = "waiting") ~> (pc[s] # "waiting")

\* all processors have finished, by each of the ways out: refused at the
\* reservation, message enqueued
C6_Witness ==
    /\ AllProcessorsDone
    /\ limit_reached_event
    /\ Enqueued > 0
    /\ semaphore = MAX_CONCURRENT_TASKS


(***************************************************************************)
(* C7, as claimed: there is no reachable state in which messages_sent has  *)
(* reached message_limit while the cutoff flag is still unset.             *)
(***************************************************************************)
C7_CutoffAsSoonAsLimit ==
    messages_sent >= message_limit => limit_reached_event

(***************************************************************************)
(* C7, amended: whenever the cutoff flag is set, messages_sent has reached *)
(* message_limit; the flag is set by the reservation attempts that find    *)
(* messages_sent >= message_limit (every one of them leaves it set), and   *)
(* it is never reset during the run.                                       *)
(***************************************************************************)
C7_CutoffOnRefusal ==
    /\ [](limit_reached_event => messages_sent >= message_limit)
    /\ [][limit_reached_event => limit_reached_event']_vars
    /\ [][(~limit_reached_event /\ limit_reached_event') =>
            \E s \in Universe : pc[s] = "locked" /\ pc'[s] = "done"]_vars
    /\ [][\A s \in Universe :
            (pc[s] = "locked" /\ pc'[s] # "locked" /\ messages_sent >= message_limit)
                => limit_reached_event']_vars

\* the budget is used up and the flag is still unset, then set
C7_Witness ==
    /\ limit_reached_event
    /\ messages_sent = message_limit
    /\ \E s \in Universe : pc[s] = "done" /\ signals[s] # <<>> /\ puts[s] = 0

C9_NoNewWorkAfterCutoff ==
    /\ [][\A s \in Universe :
            (pc[s] = "waiting" /\ limit_reached_event /\ pc'[s] # "waiting")
               => (pc'[s] = "done" /\ task'[s] = task[s])]_vars
    /\ [][\A s \in Universe : \A k \in Range(IntervalKeys) :
            (/\ task[s][k].st = "pending"
             /\ limit_reached_event
             /\ task'[s][k] # task[s][k])
               => task'[s][k] = [st |-> "settled", n |-> 0, sl |-> 0, kl |-> <<>>, res |-> "cutoff"]]_vars
    /\ [][\A s \in Universe : \A k \in Range(IntervalKeys) :
            (task[s][k].st \in {"fetching", "sleeping"} /\ limit_reached_event)
               => /\ task'[s][k].st \in {"fetching", "sleeping", "settled"}
                  /\ task'[s][k].res # "cutoff"
                  /\ task'[s][k].n >= task[s][k].n]_vars
    /\ [](\A s \in Universe : \A k \in Range(IntervalKeys) :
            task[s][k].res = "cutoff" => (task[s][k].n = 0 /\ limit_reached_event))

\* an interval task has started after the cutoff and has fetched nothing
C9_Witness ==
    /\ limit_reached_event
    /\ \E s \in Universe : \E k \in Range(IntervalKeys) : task[s][k].res = "cutoff"

(***************************************************************************)
(* C10: the orchestrator enqueues exactly one sentinel per worker, and     *)
(* only after every processor has finished; a worker exits on the first    *)
(* sentinel it dequeues, so each consumes exactly one: when the run ends   *)
(* no sentinel is left on the queue and every worker has exited.           *)
(***************************************************************************)
C10_OneSentinelPerWorker ==
    /\ sentinels \in {0, MAX_WORKERS}
    /\ sentinels > 0 => AllProcessorsDone
    /\ SentinelsQueued + Cardinality(Exited) = sentinels
    /\ (mainPc = "done" /\ symbols # <<>>) =>
          /\ sentinels = MAX_WORKERS
          /\ message_queue = <<>>
          /\ Exited = Workers

\* the run has ended after the workers delivered messages
C10_Witness ==
    /\ mainPc = "done"
    /\ sentinels = MAX_WORKERS
    /\ Exited = Workers
    /\ dequeued > 1

(***************************************************************************)
(* C11 as stated: the run returns only after a full drain; every message   *)
(* enqueued by a processor is dequeued by exactly one worker and handed to *)
(* the send operation before any worker exits on a sentinel enqueued after *)
(* it, so when main returns the queue is empty and no message was skipped. *)
(***************************************************************************)
C11_SentBeforeAnyExit ==
    /\ MessagesQueued + dequeued = Enqueued
    /\ Exited # {} => /\ dequeued = Enqueued
                      /\ Len(sendLog) = Enqueued
    /\ (mainPc = "done" /\ symbols # <<>>) => message_queue = <<>>

(***************************************************************************)
(* C11, amended: every enqueued message is on the queue or was dequeued    *)
(* once; all of them are dequeued before any worker exits on a sentinel; a *)
(* dequeued message is handed to the send operation by the worker that     *)
(* holds it before that worker dequeues anything else, possibly after      *)
(* another worker has exited; when main returns the queue is empty and     *)
(* every enqueued message was handed to the send operation.                *)
(***************************************************************************)
C11_DrainedBeforeReturn ==
    /\ MessagesQueued + dequeued = Enqueued
    /\ dequeued = Len(sendLog) + Cardinality(Limited)
    /\ \A w \in Workers : wpc[w] \in {"get", "exited"} => wmsg[w] = NoMessage
    /\ Exited # {} => dequeued = Enqueued
    /\ (mainPc = "done" /\ symbols # <<>>) =>
          /\ message_queue = <<>>
          /\ dequeued = Enqueued
          /\ Len(sendLog) = Enqueued

\* one worker has exited on its sentinel while another still holds a message
\* in the rate limiter
C11_Witness ==
    /\ Exited # {}
    /\ Limited # {}
    /\ Enqueued > 1

(***************************************************************************)
(* C12: under fair scheduling, with every fetch and every send returning,  *)
(* every run terminates: a processor is never blocked on the queue, all    *)
(* processors finish, all sentinels are enqueued and all workers exit,     *)
(* including those sleeping in the rate limiter or in a backoff.           *)
(***************************************************************************)
C12_Terminates ==
    /\ [](\A s \in Universe : pc[s] = "enqueue" => ENABLED ProcEnqueue(s))
    /\ <>(/\ mainPc = "done"
          /\ symbols # <<>> => /\ AllProcessorsDone
                               /\ sentinels = MAX_WORKERS
                               /\ SentinelsQueued = 0
                               /\ Exited = Workers)

\* the run has ended and every worker has exited, one of them after it slept
\* in a backoff
C12_Witness ==
    /\ mainPc = "done"
    /\ Exited = Workers
    /\ sendFaults > 0

(***************************************************************************)
(* C13: for each dequeued message the transport send is attempted at most  *)
(* max_attempts (5) times and never again after an attempt has succeeded,  *)
(* so a message is delivered at most once; when the first two attempts     *)
(* fail and the third succeeds the message is delivered exactly once and   *)
(* the worker is done with it.                                             *)
(***************************************************************************)
C13_AtMostFiveAttempts ==
    /\ [](\A i \in MessageIds : attempts[i] <= max_attempts /\ deliveries[i] <= 1)
    /\ [](\A w \in Workers : wpc[w] \in {"sending", "backoff"} =>
              /\ attempt[w] \in 1..max_attempts
              /\ deliveries[wmsg[w].symbol] = 0
              /\ attempts[wmsg[w].symbol] =
                    IF wpc[w] = "sending" THEN attempt[w] - 1 ELSE attempt[w])
    /\ [](\A i \in Universe : (attempts[i] = 3 /\ deliveries[i] = 1) =>
              /\ \A w \in Workers : wmsg[w].symbol # i
              /\ \A j \in 1..Len(message_queue) : message_queue[j].symbol # i)
    /\ [][\A i \in MessageIds : deliveries[i] = 1 =>
              /\ attempts'[i] = attempts[i]
              /\ deliveries'[i] = 1]_vars

\* a message was delivered by its third attempt, after two failures
C13_Witness ==
    \E i \in Universe : attempts[i] = 3 /\ deliveries[i] = 1

(***************************************************************************)
(* C14: a message whose max_attempts (5) send attempts all fail is         *)
(* dropped: it is not put back on the queue (no message on the queue has   *)
(* ever been attempted), giving it up ends neither the worker nor main,    *)
(* and the worker goes back to the queue for the next item; a worker ends  *)
(* only by dequeuing a sentinel.                                           *)
(***************************************************************************)
C14_DroppedNotRequeued ==
    /\ [](\A j \in 1..Len(message_queue) :
              message_queue[j] # EXIT => attempts[message_queue[j].symbol] = 0)
    /\ [][\A w \in Workers :
              (wpc[w] = "backoff" /\ attempt[w] = max_attempts /\ wpc'[w] # "backoff") =>
                  /\ wpc'[w] = "get"
                  /\ wmsg'[w] = NoMessage
                  /\ message_queue' = message_queue
                  /\ mainPc' = mainPc
                  /\ delivered' = delivered
                  /\ \A v \in Workers \ {w} : wpc'[v] = wpc[v]]_vars
    /\ [][\A w \in Workers :
              (wpc'[w] = "exited" /\ wpc[w] # "exited") =>
                  /\ wpc[w] = "get"
                  /\ message_queue # <<>>
                  /\ Head(message_queue) = EXIT]_vars

\* a message was given up after five failed attempts, and the worker that
\* held it has gone on to dequeue its sentinel
C14_Witness ==
    /\ \E i \in Universe : attempts[i] = max_attempts /\ deliveries[i] = 0
    /\ Busy = {}
    /\ Exited = Workers
    /\ mainPc = "done"

(***************************************************************************)
(* C15: a timestamp is added to the rate window only for a send that       *)
(* succeeded; failed attempts and dropped messages add none, so the number *)
(* of timestamps ever recorded equals the number of messages delivered.    *)
(***************************************************************************)
C15_TimestampOnlyOnSuccess ==
    /\ recorded = delivered
    /\ Len(sent_timestamps) <= delivered

(***************************************************************************)
(* C16: in every reachable state the rate window holds at most             *)
(* MESSAGES_PER_MINUTE timestamps, for any number of workers.              *)
(***************************************************************************)
C16_WindowWithinCap ==
    Len(sent_timestamps) <= MESSAGES_PER_MINUTE

(***************************************************************************)
(* C17: the active interval set is a function of (manual, h, m): in manual *)
(* mode all six intervals {5,15,30,60,240,720}; otherwise, for m a         *)
(* multiple of 5: 5 always, 15 iff m%15=0, 30 iff m%30=0, 60 iff m=0, 240  *)
(* iff m=0 and h%4=0, 720 iff m=0 and h%12=0.  The same (manual, h, m)     *)
(* gives the same set.                                                     *)
(***************************************************************************)
C17_LadderOfClock ==
    LET h == run.hour
        m == run.minute
        expected ==
            IF run.manual THEN {"5", "15", "30", "60", "240", "720"}
            ELSE {"5"}
                 \cup (IF m % 15 = 0 THEN {"15"} ELSE {})
                 \cup (IF m % 30 = 0 THEN {"30"} ELSE {})
                 \cup (IF m = 0 THEN {"60"} ELSE {})
                 \cup (IF m = 0 /\ h % 4 = 0 THEN {"240"} ELSE {})
                 \cup (IF m = 0 /\ h % 12 = 0 THEN {"720"} ELSE {})
    IN  (mainPc # "start" /\ (run.manual \/ m % 5 = 0)) =>
            /\ mainPc # "done"
            /\ Range(intervals) = expected
            /\ Len(intervals) = Cardinality(expected)

\* four o'clock: the 4-hour interval is active and the 12-hour one is not
C17_Witness ==
    /\ mainPc = "listing"
    /\ ~run.manual
    /\ run.hour = 4
    /\ run.minute = 0
    /\ Range(intervals) = {"5", "15", "30", "60", "240"}

(***************************************************************************)
(* C18: when the universe is empty after the exclusion set is applied, the *)
(* run makes one notification send and exits: no processor and no worker   *)
(* is started, nothing is put on the delivery queue and the budget is      *)
(* untouched.  The one notification is delivered once, unless each of the  *)
(* attempts of its send has failed; a run with instruments sends none.     *)
(***************************************************************************)
C18_EmptyUniverseNotifies ==
    LET notifying == mainPc \in {"notify", "notifyBackoff"}
        returned == mainPc = "done" /\ intervals # <<>> /\ symbols = <<>>
    IN  /\ (notifying \/ returned) =>
              /\ \A x \in Range(run.listing) : Upper(x) \in excluded_symbols
              /\ attempt[MainSender] >= 1
              /\ \A s \in Universe : pc[s] = "idle" /\ puts[s] = 0
              /\ \A w \in Workers : wpc[w] = "idle" /\ attempt[w] = 0
              /\ message_queue = <<>> /\ sentinels = 0 /\ sendLog = <<>>
              /\ messages_sent = 0 /\ ~limit_reached_event /\ lock = NoOne
              /\ semaphore = MAX_CONCURRENT_TASKS
              /\ \A i \in Universe : attempts[i] = 0
              /\ deliveries[EmptyNotice] <= 1
        /\ notifying => deliveries[EmptyNotice] = 0
        /\ returned =>
              \/ deliveries[EmptyNotice] = 1
              \/ deliveries[EmptyNotice] = 0 /\ attempts[EmptyNotice] = max_attempts
        /\ symbols # <<>> => attempts[EmptyNotice] = 0 /\ attempt[MainSender] = 0

\* the listing held only an excluded instrument; the notification was
\* delivered by a retry and the run has ended
C18_Witness ==
    /\ mainPc = "done"
    /\ run.listing # <<>>
    /\ symbols = <<>>
    /\ deliveries[EmptyNotice] = 1
    /\ attempts[EmptyNotice] > 1

(***************************************************************************)
(* C19: get_kline_with_retries calls the fetch at most retries (3) times,  *)
(* returns the bars of the first non-empty attempt without further calls,  *)
(* sleeps only between attempts (never after the last: retries - 1 sleeps  *)
(* when every attempt fails), and after exhaustion returns no data without *)
(* raising: the interval task settles and the instrument goes on.          *)
(***************************************************************************)
C19_AtMostThreeFetches ==
    /\ [](\A s \in Universe, k \in Range(IntervalKeys) :
              LET t == task[s][k]
              IN  /\ t.n <= retries
                  /\ t.sl <= retries - 1
                  /\ t.st = "fetching" => t.n >= 1 /\ t.sl = t.n - 1
                  /\ t.st = "sleeping" => t.n < retries /\ t.sl = t.n
                  /\ (t.st = "settled" /\ t.res # "cutoff") =>
                        t.n >= 1 /\ t.sl = t.n - 1
                  /\ t.res = "nodata" =>
                        /\ t.st = "settled"
                        /\ t.n = retries
                        /\ t.sl = retries - 1)
    /\ [][\A s \in Universe, k \in Range(IntervalKeys) :
              /\ task[s][k].st = "settled" => task'[s][k] = task[s][k]
              /\ (task[s][k].st = "fetching" /\ task'[s][k].res = "nodata") =>
                    pc'[s] = "gathering"]_vars

\* all three attempts of an interval failed, with two sleeps between them,
\* and its instrument has finished
C19_Witness ==
    \E s \in Universe, k \in Range(IntervalKeys) :
        /\ task[s][k] = [st |-> "settled", n |-> retries, sl |-> retries - 1,
                         kl |-> <<>>, res |-> "nodata"]
        /\ pc[s] = "done"

(***************************************************************************)
(* C20: a fetch failure on one interval of an instrument (all attempts     *)
(* exhausted) neither fails the instrument nor affects its sibling         *)
(* interval tasks: the instrument's message lists, for each direction,     *)
(* exactly the intervals whose evaluation produced that signal, and the    *)
(* failed interval is absent from it.                                      *)
(***************************************************************************)
C20_FailedIntervalAbsent ==
    /\ [](\A s \in Universe : message[s] # NoMessage =>
              LET lines == message[s].lines
                  listed(a) == UNION {Range(lines[i].labels) :
                                        i \in {j \in 1..Len(lines) : lines[j].action = a}}
                  found(r) == {Label(k) : k \in {j \in Range(intervals) :
                                                    task[s][j].res = r}}
              IN  /\ message[s].symbol = s
                  /\ listed("LONG") = found("long")
                  /\ listed("SHORT") = found("short")
                  /\ \A i \in 1..Len(lines) :
                        /\ lines[i].action \in {"LONG", "SHORT"}
                        /\ lines[i].labels # <<>>
                  /\ \A k \in Range(intervals) : task[s][k].res = "nodata" =>
                        Label(k) \notin listed("LONG") \cup listed("SHORT"))
    /\ [](\A s \in Universe :
              (pc[s] = "done" /\ signals[s] # <<>>) => message[s] # NoMessage)
    /\ [][\A s \in Universe, k \in Range(IntervalKeys) :
              (task[s][k].res # "nodata" /\ task'[s][k].res = "nodata") =>
                  /\ pc'[s] = pc[s]
                  /\ signals'[s] = signals[s]
                  /\ \A j \in Range(IntervalKeys) \ {k} : task'[s][j] = task[s][j]]_vars

\* one interval of an instrument failed all its attempts, another gave a
\* signal, and the message with that signal alone was enqueued
C20_Witness ==
    \E s \in Universe :
        /\ puts[s] = 1
        /\ \E k \in Range(intervals) : task[s][k].res = "nodata"
        /\ \E k \in Range(intervals) : task[s][k].res \in {"long", "short"}
        /\ Len(message[s].lines) = 1

(***************************************************************************)
(* C21: if any bar of an interval's fetched sequence is malformed (a       *)
(* required field missing, or a value that is not numeric), the interval   *)
(* is aborted and contributes no result to the instrument's message; the   *)
(* evaluator is never run on a sequence from which the malformed bar was   *)
(* merely removed.                                                         *)
(***************************************************************************)
C21_MalformedBarAborts ==
    \A s \in Universe, k \in Range(IntervalKeys) :
        LET t == task[s][k]
            closed == SubSeq(t.kl, 1, Len(t.kl) - 1)
        IN  (t.st = "settled" /\ \E i \in 1..Len(closed) : closed[i].fmt # "ok") =>
                /\ t.res = "abort"
                /\ \A i \in 1..Len(signals[s]) :
                      Label(k) \notin Range(signals[s][i].list)

(***************************************************************************)
(* C22: within each direction of an instrument's message the interval      *)
(* labels appear in ascending duration order (5m, 15m, 30m, 1h, 4h, 12h),  *)
(* each label at most once.                                                *)
(***************************************************************************)
C22_LabelsAscending ==
    LET duration(l) == CHOOSE i \in 1..Len(IntervalKeys) : Label(IntervalKeys[i]) = l
    IN  \A s \in Universe : \A n \in 1..Len(message[s].lines) :
            LET labels == message[s].lines[n].labels
            IN  \A i, j \in 1..Len(labels) :
                    i < j => duration(labels[i]) < duration(labels[j])

(***************************************************************************)
(* C23: the evaluator returns no signal, and raises no error, for every    *)
(* input of fewer than 2 bars (0 or 1 bar), including a fetched sequence   *)
(* of a single bar, of which the processor drops the last element before   *)
(* the evaluation.                                                         *)
(***************************************************************************)
C23_TooFewBarsNoSignal ==
    \A s \in Universe, k \in Range(IntervalKeys) :
        LET t == task[s][k]
            closed == SubSeq(t.kl, 1, Len(t.kl) - 1)
            candles == SelectSeq(closed, LAMBDA b : b.fmt = "ok")
        IN  (/\ t.st = "settled"
             /\ t.kl # <<>>
             /\ \A i \in 1..Len(closed) : closed[i].fmt # "null"
             /\ Len(candles) < 2) =>
                 /\ t.res = "none"
                 /\ \A i \in 1..Len(signals[s]) :
                       Label(k) \notin Range(signals[s][i].list)

\* an interval whose fetch gave a single bar has settled without a signal
C23_Witness ==
    \E s \in Universe, k \in Range(IntervalKeys) :
        /\ task[s][k].st = "settled"
        /\ Len(task[s][k].kl) = 1
        /\ task[s][k].kl[1].fmt = "ok"
        /\ task[s][k].res = "none"
        /\ pc[s] = "done"

(***************************************************************************)
(* C24: a processor whose interval tasks produce zero directional results  *)
(* emits nothing and leaves the budget unchanged: it does not enter the    *)
(* reservation step, does not change messages_sent, does not set the       *)
(* cutoff flag and puts nothing on the queue.                              *)
(***************************************************************************)
C24_NoSignalsNoEffect ==
    /\ [](\A s \in Universe :
              /\ pc[s] \in {"locked", "enqueue"} => signals[s] # <<>>
              /\ lock = s => signals[s] # <<>>
              /\ signals[s] = <<>> => puts[s] = 0 /\ message[s] = NoMessage)
    /\ [][\A s \in Universe :
              (pc[s] = "gathering" /\ signals[s] = <<>> /\ pc'[s] # "gathering") =>
                  /\ AllSettled(s)
                  /\ pc'[s] = "done"
                  /\ UNCHANGED <<budgetVars, message_queue, puts, message>>]_vars

\* a processor has finished after all its interval tasks settled without a
\* signal, while budget was left
C24_Witness ==
    \E s \in Universe :
        /\ pc[s] = "done"
        /\ \A k \in Range(intervals) : task[s][k].res = "none"
        /\ signals[s] = <<>>
        /\ messages_sent < message_limit
        /\ ~limit_reached_event

(***************************************************************************)
(* C25: the cutoff flag changes only from unset to set, and only inside    *)
(* the lock-guarded reservation step of a processor that observes          *)
(* messages_sent >= message_limit; hence cutoff set implies messages_sent  *)
(* = message_limit; messages_sent is incremented only while messages_sent  *)
(* < message_limit, under the lock, and never changes after cutoff.        *)
(***************************************************************************)
C25_CutoffOneWay ==
    /\ [](limit_reached_event => messages_sent = message_limit)
    /\ [][limit_reached_event =>
            limit_reached_event' /\ messages_sent' = messages_sent]_vars
    /\ [][(~limit_reached_event /\ limit_reached_event') =>
            \E s \in Universe :
                /\ lock = s /\ lock' = NoOne
                /\ pc[s] = "locked" /\ pc'[s] = "done"
                /\ messages_sent >= message_limit
                /\ messages_sent' = messages_sent]_vars
    /\ [][messages_sent' # messages_sent =>
            /\ messages_sent < message_limit
            /\ messages_sent' = messages_sent + 1
            /\ limit_reached_event' = limit_reached_event
            /\ \E s \in Universe :
                  lock = s /\ pc[s] = "locked" /\ pc'[s] = "enqueue"]_vars

\* a run has ended after the cutoff, with the counter still at the limit
C25_Witness ==
    /\ limit_reached_event
    /\ mainPc = "done"
    /\ messages_sent = message_limit
    /\ Enqueued = message_limit

(***************************************************************************)
(* C26: in the send retry loop the wait after the k-th transient failure   *)
(* (timeout or transport error) of a message is 1s * 2^(k-1), counting     *)
(* only transient failures; a retry-after failure waits exactly the        *)
(* duration dictated by the transport and leaves the computed backoff      *)
(* delay unchanged for later attempts.                                     *)
(***************************************************************************)
C26_BackoffDoubles ==
    /\ [](\A w \in Workers : wpc[w] \in {"sending", "backoff"} =>
              delay[w] = initial_delay * backoff_factor ^ transients[wmsg[w].symbol])
    /\ [](mainPc \in {"notify", "notifyBackoff"} =>
              delay[MainSender] = initial_delay * backoff_factor ^ transients[EmptyNotice])
    /\ [][\A i \in MessageIds :
              LET x == IF i = EmptyNotice THEN MainSender
                       ELSE CHOOSE w \in Workers : wmsg[w].symbol = i
              IN  (attempts'[i] = attempts[i] + 1 /\ deliveries'[i] = deliveries[i]) =>
                      IF transients'[i] = transients[i] + 1
                        THEN /\ slept'[x] =
                                  initial_delay * backoff_factor ^ (transients'[i] - 1)
                             /\ delay'[x] = delay[x] * backoff_factor
                        ELSE /\ transients'[i] = transients[i]
                             /\ slept'[x] \in RetryAfters
                             /\ delay'[x] = delay[x]]_vars

\* the third transient failure of a message, which also had a retry-after
\* failure, is followed by a wait of 4 seconds
C26_Witness ==
    \E w \in Workers :
        /\ wpc[w] = "backoff"
        /\ transients[wmsg[w].symbol] = 3
        /\ attempts[wmsg[w].symbol] = 4
        /\ slept[w] = 4

(***************************************************************************)
(* C27: a worker that finds the window count at or above the per-minute    *)
(* cap does not start sending its message until the oldest timestamp it    *)
(* observed has left the 60-second window; the computed wait is strictly   *)
(* positive and at most 60 seconds.                                        *)
(***************************************************************************)
C27_WaitsForOldest ==
    /\ [](\A w \in Workers : wpc[w] = "limited" =>
              /\ wmsg[w] \notin {NoMessage, EXIT}
              /\ attempts[wmsg[w].symbol] = 0)
    /\ [][\A w \in Workers : (wpc[w] = "get" /\ wpc'[w] = "sending") =>
              Len(sent_timestamps') < MESSAGES_PER_MINUTE]_vars
    /\ [][\A w \in Workers : (wpc[w] = "get" /\ wpc'[w] = "limited") =>
              /\ Len(sent_timestamps') >= MESSAGES_PER_MINUTE
              /\ now - sent_timestamps'[1] < WINDOW_SECONDS
              /\ wakeAt'[w] = sent_timestamps'[1] + WINDOW_SECONDS
              /\ wakeAt'[w] - now > 0
              /\ wakeAt'[w] - now <= WINDOW_SECONDS
              /\ sendLog' = sendLog]_vars
    /\ [][\A w \in Workers : (wpc[w] = "limited" /\ wpc'[w] # "limited") =>
              /\ wpc'[w] = "sending"
              /\ now >= wakeAt[w]
              /\ sendLog' = Append(sendLog, now)
              /\ \A i \in 1..Len(sent_timestamps') :
                    sent_timestamps'[i] > wakeAt[w] - WINDOW_SECONDS]_vars

\* a worker that had to wait is sending, its wait being over
C27_Witness ==
    \E w \in Workers :
        /\ wpc[w] = "sending"
        /\ wakeAt[w] > 0
        /\ now >= wakeAt[w]
        /\ sendLog[Len(sendLog)] >= wakeAt[w]

(***************************************************************************)
(* C28: in non-manual mode, when the current minute is not a multiple of 5 *)
(* the run ends at once with an empty effect: the instrument universe is   *)
(* not fetched, no processor and no worker is started, no notification is  *)
(* sent and nothing is enqueued.                                           *)
(***************************************************************************)
C28_WrongTimeNoEffect ==
    (~run.manual /\ run.minute % 5 # 0) =>
        /\ mainPc \in {"start", "done"}
        /\ symbols = <<>> /\ intervals = <<>>
        /\ \A s \in Universe :
              /\ pc[s] = "idle" /\ puts[s] = 0
              /\ \A k \in Range(IntervalKeys) : task[s][k] = NoTask
        /\ \A w \in Workers : wpc[w] = "idle"
        /\ \A x \in Senders : attempt[x] = 0
        /\ \A i \in MessageIds : attempts[i] = 0
        /\ message_queue = <<>> /\ sentinels = 0 /\ sendLog = <<>>
        /\ messages_sent = 0 /\ ~limit_reached_event
        /\ semaphore = MAX_CONCURRENT_TASKS
        /\ fetchFaults = 0 /\ sendFaults = 0

\* a run started at 23:59 has ended
C28_Witness ==
    /\ mainPc = "done"
    /\ ~run.manual
    /\ run.hour = 23
    /\ run.minute = 59
    /\ run.listing # <<>>

(***************************************************************************)
(* C29: in every reachable state delivered <= dequeued <= enqueued <=      *)
(* messages_sent <= message_limit, and at the end of a run enqueued =      *)
(* messages_sent: every successful reservation is followed by exactly one  *)
(* enqueue, and a message dropped after failed delivery does not give its  *)
(* budget unit back.                                                       *)
(***************************************************************************)
C29_CountersInOrder ==
    /\ [](/\ delivered <= dequeued
          /\ dequeued <= Enqueued
          /\ Enqueued <= messages_sent
          /\ messages_sent <= message_limit)
    /\ [](/\ \A s \in Universe : puts[s] <= 1
          /\ messages_sent = Enqueued + Cardinality({s \in Universe : pc[s] = "enqueue"}))
    /\ []((mainPc = "done" /\ symbols # <<>>) =>
              /\ Enqueued = messages_sent
              /\ dequeued = Enqueued)
    /\ [][messages_sent' >= messages_sent]_vars

\* a run has ended in which the one message that took the budget was
\* dropped after its fifth failed attempt
C29_Witness ==
    /\ mainPc = "done"
    /\ delivered = 0
    /\ dequeued = 1
    /\ Enqueued = 1
    /\ messages_sent = message_limit
    /\ sendFaults = max_attempts

====
